---- MODULE Spec2Model ----
(***************************************************************************)
(* Model of the calculator service: the arithmetic primitives and the      *)
(* expression evaluator of app/calculator.py, and the history-keeping      *)
(* endpoints of app/main.py.                                               *)
(*                                                                         *)
(* Strings are sequences of one-character strings.  A Python number is a   *)
(* record [t, k, n, d, e]: type t ("int" or "float"), class k ("fin",      *)
(* "inf", "nan"), and for a finite number the exact value                  *)
(* (n / d) * 10^e.  The decimal exponent lets the model hold numbers up to *)
(* and beyond the largest double, so that overflow to infinity is computed *)
(* and not assumed.  Whatever lies outside the fragment of Python the      *)
(* model computes (see Unmodelled) is marked and is checked unreachable.   *)
(***************************************************************************)
EXTENDS Integers, Sequences, FiniteSets, TLC

----------------------------------------------------------------------------
(* Bounds of the model *)

\* longest expression drawn exhaustively over Alphabet
MaxLen == 3
\* longest history the endpoints are driven to
MaxHistory == 3
\* magnitude of the integer operands of the primitives
MaxInt == 3

----------------------------------------------------------------------------
(* The shapes of the values of the model *)

\* a Python object: a number (n / d) * 10^e of type t and class k, or an
\* object of another type
PyObjects ==
  [t : {"int", "float", "complex", "tuple", "ellipsis", "module", "none",
        "builtin_function_or_method"},
   k : {"fin", "inf", "nan", "obj", "abs", "sqrt", "log", "sin", "cos", "tan"},
   n : Int, d : Nat, e : Int]

\* how a call or an evaluation ends: with the value v, or with an exception
\* of class cls whose str() is msg
Outcomes ==
  [st : {"none", "val", "exc", "unmodelled"}, v : PyObjects, cls : STRING,
   msg : Seq(STRING)]

\* a token of an expression, and a parse: ok is FALSE on a syntax error, r
\* is the outcome of the evaluation, i the position of the next token
Tokens ==
  [k : {"num", "name", "op", "bad", "unmodelled"}, v : PyObjects,
   s : STRING \cup Seq(STRING)]
Parses == [ok : BOOLEAN, r : Outcomes, i : Nat]

\* what a caller passes for the parameter expression
ArgumentValues ==
  [type : {"str", "NoneType", "int", "list"}, chars : Seq(STRING),
   truthy : BOOLEAN]

\* a call of a primitive
PrimitiveCalls == [op : STRING, args : Seq(PyObjects)]

\* the bodies of the requests
RequestBodies ==
  [a : PyObjects, b : PyObjects] \cup [base : PyObjects, exponent : PyObjects]
    \cup [value : PyObjects] \cup [expression : Seq(STRING)]

\* an entry of the history (OperationResponse, main.py lines 41-45, without
\* its timestamp), a request answered with its status, and an HTTP response
HistoryEntries == [operation : STRING, input : RequestBodies, result : PyObjects]
AnsweredRequests ==
  [operation : STRING, input : RequestBodies, result : PyObjects,
   status : {200, 400, 500}]
Responses ==
  [status : {0, 200, 400, 500}, entries : Seq(HistoryEntries),
   detail : Seq(STRING), removed : Nat]

----------------------------------------------------------------------------
(* Characters and strings *)

Digits == {"0", "1", "2", "3", "4", "5", "6", "7", "8", "9"}

Letters ==
  {"a", "b", "c", "d", "e", "f", "g", "h", "i", "j", "k", "l", "m",
   "n", "o", "p", "q", "r", "s", "t", "u", "v", "w", "x", "y", "z"}

\* the literal of calculator.py line 76, character by character
allowed_chars_literal ==
  <<"0", "1", "2", "3", "4", "5", "6", "7", "8", "9", "+", "-", "*", "/",
    "(", ")", ".", "*", "*", "s", "q", "r", "t", "(", ")", "l", "o", "g",
    "(", ")", "s", "i", "n", "(", ")", "c", "o", "s", "(", ")", "t", "a",
    "n", "(", ")", "a", "b", "s", "(", ")", ".">>

\* set("0123456789+-*/().**sqrt()log()sin()cos()tan()abs().")
allowed_chars == {allowed_chars_literal[i] : i \in DOMAIN allowed_chars_literal}

\* does sub occur in s at position i
StartsWithAt(s, i, sub) ==
  /\ i + Len(sub) - 1 <= Len(s)
  /\ \A j \in 1..Len(sub) : s[i + j - 1] = sub[j]

RECURSIVE ReplaceFrom(_, _, _, _)
ReplaceFrom(s, i, old, new) ==
  IF i > Len(s) THEN <<>>
  ELSE IF StartsWithAt(s, i, old)
       THEN new \o ReplaceFrom(s, i + Len(old), old, new)
       ELSE <<s[i]>> \o ReplaceFrom(s, i + 1, old, new)

\* str.replace(old, new) for a non-empty old: every non-overlapping
\* occurrence, scanning from the left
Replace(s, old, new) == ReplaceFrom(s, 1, old, new)

\* str.count(c) for a one-character c
Count(s, c) == Cardinality({i \in DOMAIN s : s[i] = c})

----------------------------------------------------------------------------
(* Python numbers *)

Abs(x) == IF x < 0 THEN -x ELSE x
Sign(x) == IF x < 0 THEN -1 ELSE IF x = 0 THEN 0 ELSE 1
Min(a, b) == IF a <= b THEN a ELSE b

RECURSIVE GCD(_, _)
GCD(a, b) == IF b = 0 THEN a ELSE GCD(b, a % b)

RECURSIVE Pow10(_)
Pow10(k) == IF k = 0 THEN 1 ELSE 10 * Pow10(k - 1)

RECURSIVE TrailingTens(_)
\* how many times 10 divides x (x # 0)
TrailingTens(x) == IF x % 10 = 0 THEN 1 + TrailingTens(x \div 10) ELSE 0

RECURSIVE NumDigits(_)
\* decimal digits of x >= 1
NumDigits(x) == IF x < 10 THEN 1 ELSE 1 + NumDigits(x \div 10)

RECURSIVE Canonical(_, _, _, _)
\* the representation of (n / d) * 10^e, n # 0, gcd(n, d) = 1, in which d
\* has no factor 2 or 5 and 10 does not divide n; it is unique
Canonical(t, n, d, e) ==
  IF d % 2 = 0 THEN Canonical(t, n * 5, d \div 2, e - 1)
  ELSE IF d % 5 = 0 THEN Canonical(t, n * 2, d \div 5, e - 1)
  ELSE LET a == TrailingTens(Abs(n))
       IN [t |-> t, k |-> "fin", n |-> Sign(n) * (Abs(n) \div Pow10(a)),
           d |-> d, e |-> e + a]

\* the finite number (n / d) * 10^e of type t
Finite(t, n, d, e) ==
  IF n = 0 THEN [t |-> t, k |-> "fin", n |-> 0, d |-> 1, e |-> 0]
  ELSE LET g == GCD(Abs(n), Abs(d))
       IN Canonical(t, Sign(n) * Sign(d) * (Abs(n) \div g), Abs(d) \div g, e)

PyInt(n) == Finite("int", n, 1, 0)
PyFloat(n, d) == Finite("float", n, d, 0)
Inf(sign) == [t |-> "float", k |-> "inf", n |-> sign, d |-> 1, e |-> 0]
NaN == [t |-> "float", k |-> "nan", n |-> 0, d |-> 1, e |-> 0]

\* objects that are not numbers
Obj(type) == [t |-> type, k |-> "obj", n |-> 0, d |-> 1, e |-> 0]

IsNumber(v) == v.t \in {"int", "float"}
IsFinite(v) == IsNumber(v) /\ v.k = "fin"
IsZero(v) == IsFinite(v) /\ v.n = 0
IsNegative(v) == IsNumber(v) /\ v.k # "nan" /\ v.n < 0
\* a finite number with an integer value (any int, or a float like 2.0)
IsIntegral(v) == IsFinite(v) /\ v.d = 1 /\ v.e >= 0

\* results of an evaluation: a value, a raised exception, or a construct
\* the model does not compute
Val(v) == [st |-> "val", v |-> v, cls |-> "", msg |-> <<>>]
Raise(cls) == [st |-> "exc", v |-> Obj("none"), cls |-> cls, msg |-> <<cls>>]
Unmodelled == [st |-> "unmodelled", v |-> Obj("none"), cls |-> "", msg |-> <<>>]

\* Decimal order o of a finite non-zero number: 10^(o-1) < |v| < 10^(o+1)
Order(v) == v.e + NumDigits(Abs(v.n)) - NumDigits(v.d)

\* DBL_MAX = 1.7976931348623157e308 to four digits; smallest subnormal
\* 4.9e-324.  "over": |v| > DBL_MAX; "under": |v| rounds to zero;
\* "normal": representable magnitude; "unknown": too close to a limit for
\* the model to tell.
Magnitude(v) ==
  LET o == Order(v)
      k == v.e - 305
  IN IF v.n = 0 THEN "normal"
     ELSE IF o >= 310 THEN "over"
     ELSE IF o <= -325 THEN "under"
     ELSE IF o \in {-324, -323} THEN "unknown"
     ELSE IF o <= 307 THEN "normal"
     ELSE IF NumDigits(Abs(v.n)) > 4 \/ NumDigits(v.d) > 4 THEN "unknown"
     ELSE IF Abs(v.n) * Pow10(k) >= 1798 * v.d THEN "over"
     ELSE IF Abs(v.n) * Pow10(k) <= 1797 * v.d THEN "normal"
     ELSE "unknown"

\* float(x) of a number: OverflowError for an int beyond the doubles
ToFloat(v) ==
  IF v.t = "float" THEN Val(v)
  ELSE CASE Magnitude(v) = "over" -> Raise("OverflowError")
         [] Magnitude(v) = "unknown" -> Unmodelled
         [] OTHER -> Val([v EXCEPT !.t = "float"])

\* the double nearest to the exact result of + - * /: overflow gives an
\* infinity, underflow gives zero
RoundFloat(v) ==
  CASE Magnitude(v) = "over" -> Val(Inf(Sign(v.n)))
    [] Magnitude(v) = "under" -> Val(Finite("float", 0, 1, 0))
    [] Magnitude(v) = "unknown" -> Unmodelled
    [] OTHER -> Val([v EXCEPT !.t = "float"])

\* the double result of pow() and of int / int: overflow raises
RoundFloatOrRaise(v) ==
  CASE Magnitude(v) = "over" -> Raise("OverflowError")
    [] Magnitude(v) = "under" -> Val(Finite("float", 0, 1, 0))
    [] Magnitude(v) = "unknown" -> Unmodelled
    [] OTHER -> Val([v EXCEPT !.t = "float"])

----------------------------------------------------------------------------
(* Python arithmetic.  Finite results are computed exactly; the rounding   *)
(* of the 53-bit mantissa is not modelled, the limits of the exponent are. *)

\* x + y of two finite numbers, as a number of type t
ExactAdd(t, x, y) ==
  LET em == Min(x.e, y.e)
      a == x.e - em
      b == y.e - em
  IN IF x.n = 0 THEN Val([y EXCEPT !.t = t])
     ELSE IF y.n = 0 THEN Val([x EXCEPT !.t = t])
     ELSE IF a <= 8 /\ b <= 8
          THEN Val(Finite(t, x.n * Pow10(a) * y.d + y.n * Pow10(b) * x.d,
                          x.d * y.d, em))
          \* a double absorbs an addend more than 40 decimal orders smaller
          ELSE IF t = "float" /\ a > 40 THEN Val([x EXCEPT !.t = t])
          ELSE IF t = "float" /\ b > 40 THEN Val([y EXCEPT !.t = t])
          ELSE Unmodelled

ExactMul(t, x, y) == Val(Finite(t, x.n * y.n, x.d * y.d, x.e + y.e))

\* x / y, y # 0
ExactDiv(t, x, y) == Val(Finite(t, x.n * y.d, x.d * y.n, x.e - y.e))

Negate(v) == [v EXCEPT !.n = -v.n]

\* the integer value of an integral number with a small exponent
IntValue(v) == v.n * Pow10(v.e)
HasIntValue(v) == IsIntegral(v) /\ v.e <= 8

\* floor(x / y) of two numbers with integer values, y # 0
FloorQuotient(a, b) ==
  IF b > 0 THEN a \div b ELSE (-a) \div (-b)

\* x % y as CPython computes it (longobject.c l_mod, floatobject.c
\* float_rem): the remainder of the truncating division, moved by y when it
\* is non-zero and its sign differs from the sign of y
TruncatedRemainder(a, b) == Sign(a) * (Abs(a) % Abs(b))
\* PyModInt without the move by y: the remainder of C
PyModIntTruncating(a, b) == TruncatedRemainder(a, b)
PyModInt(a, b) ==
  LET mod == TruncatedRemainder(a, b)
  IN IF mod # 0 /\ ((mod < 0) # (b < 0)) THEN mod + b ELSE mod

RECURSIVE IPow(_, _)
IPow(b, m) == IF m = 0 \/ b = 1 THEN 1 ELSE b * IPow(b, m - 1)

RECURSIVE ISqrtIn(_, _, _)
\* the r with lo <= r < hi and r*r <= x < (r+1)*(r+1)
ISqrtIn(x, lo, hi) ==
  IF hi - lo <= 1 THEN lo
  ELSE LET mid == (lo + hi) \div 2
       IN IF mid * mid <= x THEN ISqrtIn(x, mid, hi) ELSE ISqrtIn(x, lo, mid)
ISqrt(x) == ISqrtIn(x, 0, 46341)
IsSquare(x) == ISqrt(x) * ISqrt(x) = x

\* the square root of a finite float v >= 0: exact for a ratio of squares,
\* else to three decimals of the mantissa
SqrtFinite(v) ==
  LET odd == v.e % 2 = 1
      n1 == IF odd THEN v.n * 10 ELSE v.n
      e1 == IF odd THEN v.e - 1 ELSE v.e
  IN IF IsSquare(n1) /\ IsSquare(v.d)
     THEN Val(Finite("float", ISqrt(n1), ISqrt(v.d), e1 \div 2))
     ELSE IF n1 <= 2147
          THEN Val(Finite("float", ISqrt((n1 * 1000000) \div v.d), 1,
                          (e1 \div 2) - 3))
          ELSE Unmodelled

RECURSIVE PowFits(_, _)
\* b^m, b >= 1, is within the integers of the model
PowFits(b, m) ==
  \/ m = 0
  \/ b = 1
  \/ m <= 31 /\ PowFits(b, m - 1) /\ IPow(b, m - 1) <= 2147483647 \div b

\* x ** m for a finite x and an integer m, exactly; the model computes it
\* for a power of ten and for a mantissa within its integers
ExactPow(t, x, m) ==
  LET a == Abs(m)
      sgn == IF x.n < 0 /\ a % 2 = 1 THEN -1 ELSE 1
      small == PowFits(Abs(x.n), a) /\ PowFits(x.d, a)
  IN IF a = 0 THEN Val(Finite(t, 1, 1, 0))
     ELSE IF x.n = 0 THEN Val(Finite(t, 0, 1, 0))
     ELSE IF ~small THEN Unmodelled
     ELSE IF m > 0
          THEN Val(Finite(t, sgn * IPow(Abs(x.n), a), IPow(x.d, a), x.e * a))
          ELSE Val(Finite(t, sgn * IPow(x.d, a), IPow(Abs(x.n), a), -(x.e * a)))

IsOdd(v) == HasIntValue(v) /\ Abs(IntValue(v)) % 2 = 1

\* floatobject.c float_pow, in the order of its tests
FloatPow(x, y) ==
  IF IsZero(y) THEN Val(PyFloat(1, 1))
  ELSE IF x.k = "nan" THEN Val(NaN)
  ELSE IF y.k = "nan"
       THEN IF x = PyFloat(1, 1)
            THEN Val(PyFloat(1, 1)) ELSE Val(NaN)
  ELSE IF y.k = "inf" THEN Unmodelled
  ELSE IF x.k = "inf"
       THEN IF y.n > 0
            THEN Val(IF IsOdd(y) THEN x ELSE Inf(1))
            ELSE Val(PyFloat(0, 1))
  ELSE IF x.n = 0
       THEN IF y.n < 0 THEN Raise("ZeroDivisionError") ELSE Val(PyFloat(0, 1))
  ELSE IF x.n < 0 /\ ~IsIntegral(y) THEN Val(Obj("complex"))
  ELSE IF IsIntegral(y)
       THEN IF ~HasIntValue(y) THEN Unmodelled
            ELSE LET r == ExactPow("float", x, IntValue(y))
                 IN IF r.st = "val" THEN RoundFloatOrRaise(r.v) ELSE r
  ELSE IF x = PyFloat(1, 1) THEN Val(PyFloat(1, 1))
  ELSE IF y = PyFloat(1, 2) THEN SqrtFinite(x)
  ELSE Unmodelled

\* the binary operators on two ints
IntOp(op, x, y) ==
  CASE op = "+" -> ExactAdd("int", x, y)
    [] op = "-" -> ExactAdd("int", x, Negate(y))
    [] op = "*" -> ExactMul("int", x, y)
    [] op = "/" ->
         IF IsZero(y) THEN Raise("ZeroDivisionError")
         ELSE RoundFloatOrRaise(ExactDiv("float", x, y).v)
    [] op = "//" ->
         IF IsZero(y) THEN Raise("ZeroDivisionError")
         ELSE IF ~(HasIntValue(x) /\ HasIntValue(y)) THEN Unmodelled
         ELSE Val(PyInt(FloorQuotient(IntValue(x), IntValue(y))))
    [] op = "%" ->
         IF IsZero(y) THEN Raise("ZeroDivisionError")
         ELSE IF ~(HasIntValue(x) /\ HasIntValue(y)) THEN Unmodelled
         ELSE Val(PyInt(PyModInt(IntValue(x), IntValue(y))))
    [] op = "**" ->
         IF y.n >= 0
         THEN IF HasIntValue(y) THEN ExactPow("int", x, IntValue(y))
              ELSE Unmodelled
         ELSE LET fx == ToFloat(x)
                  fy == ToFloat(y)
              IN IF fx.st # "val" THEN fx
                 ELSE IF fy.st # "val" THEN fy
                 ELSE FloatPow(fx.v, fy.v)

\* a finite result, rounded to a double
Rounded(r) == IF r.st = "val" THEN RoundFloat(r.v) ELSE r

\* the binary operators on two floats
FloatOp(op, x, y) ==
  CASE op = "+" ->
         IF x.k = "nan" \/ y.k = "nan" THEN Val(NaN)
         ELSE IF x.k = "inf"
              THEN IF y.k = "inf" /\ y.n # x.n THEN Val(NaN) ELSE Val(x)
         ELSE IF y.k = "inf" THEN Val(y)
         ELSE Rounded(ExactAdd("float", x, y))
    [] op = "-" ->
         IF x.k = "nan" \/ y.k = "nan" THEN Val(NaN)
         ELSE IF x.k = "inf"
              THEN IF y.k = "inf" /\ y.n = x.n THEN Val(NaN) ELSE Val(x)
         ELSE IF y.k = "inf" THEN Val(Negate(y))
         ELSE Rounded(ExactAdd("float", x, Negate(y)))
    [] op = "*" ->
         IF x.k = "nan" \/ y.k = "nan" THEN Val(NaN)
         ELSE IF x.k = "inf" \/ y.k = "inf"
              THEN IF x.n = 0 \/ y.n = 0 THEN Val(NaN)
                   ELSE Val(Inf(Sign(x.n) * Sign(y.n)))
         ELSE Rounded(ExactMul("float", x, y))
    [] op = "/" ->
         IF IsZero(y) THEN Raise("ZeroDivisionError")
         ELSE IF x.k = "nan" \/ y.k = "nan" THEN Val(NaN)
         ELSE IF x.k = "inf"
              THEN IF y.k = "inf" THEN Val(NaN)
                   ELSE Val(Inf(Sign(x.n) * Sign(y.n)))
         ELSE IF y.k = "inf" THEN Val(PyFloat(0, 1))
         ELSE Rounded(ExactDiv("float", x, y))
    [] op = "//" ->
         IF IsZero(y) THEN Raise("ZeroDivisionError")
         ELSE IF ~(HasIntValue(x) /\ HasIntValue(y)) THEN Unmodelled
         ELSE Val(PyFloat(FloorQuotient(IntValue(x), IntValue(y)), 1))
    [] op = "%" ->
         IF IsZero(y) THEN Raise("ZeroDivisionError")
         ELSE IF ~(HasIntValue(x) /\ HasIntValue(y)) THEN Unmodelled
         ELSE Val(PyFloat(PyModInt(IntValue(x), IntValue(y)), 1))
    [] op = "**" -> FloatPow(x, y)

\* x op y of two Python objects.  The only tuple an expression can build is
\* the empty one; complex arithmetic is outside the model.
BinOp(op, x, y) ==
  IF x.t = "complex" \/ y.t = "complex" THEN Unmodelled
  ELSE IF IsNumber(x) /\ IsNumber(y)
       THEN IF x.t = "int" /\ y.t = "int" THEN IntOp(op, x, y)
            ELSE LET fx == ToFloat(x)
                     fy == ToFloat(y)
                 IN IF fx.st # "val" THEN fx
                    ELSE IF fy.st # "val" THEN fy
                    ELSE FloatOp(op, fx.v, fy.v)
  ELSE IF op = "+" /\ x.t = "tuple" /\ y.t = "tuple" THEN Val(Obj("tuple"))
  ELSE IF op = "*" /\ x.t = "tuple" /\ y.t = "int"
       THEN IF HasIntValue(y) THEN Val(Obj("tuple")) ELSE Unmodelled
  ELSE IF op = "*" /\ x.t = "int" /\ y.t = "tuple"
       THEN IF HasIntValue(x) THEN Val(Obj("tuple")) ELSE Unmodelled
  ELSE Raise("TypeError")

\* -x and +x
UnaryOp(op, x) ==
  IF x.t = "complex" THEN Unmodelled
  ELSE IF ~IsNumber(x) THEN Raise("TypeError")
  ELSE IF op = "-" THEN Val(Negate(x))
  ELSE Val(x)

----------------------------------------------------------------------------
(* The namespace of eval: safe_dict and the math module *)

Func(name) ==
  [t |-> "builtin_function_or_method", k |-> name, n |-> 0, d |-> 1, e |-> 0]

\* the functions of math that can be named: sqrt, log, sin, cos, tan, and
\* log2 and log10, which the model does not compute
MathAttr(name) ==
  CASE name = <<"s", "q", "r", "t">> -> "sqrt"
    [] name = <<"l", "o", "g">> -> "log"
    [] name = <<"s", "i", "n">> -> "sin"
    [] name = <<"c", "o", "s">> -> "cos"
    [] name = <<"t", "a", "n">> -> "tan"
    [] name = <<"l", "o", "g", "2">> -> "log2"
    [] name = <<"l", "o", "g", "1", "0">> -> "log10"
    [] OTHER -> ""

\* the keywords that can be spelled with the characters that reach eval
Keywords == {<<"a", "s">>, <<"i", "n">>, <<"i", "s">>, <<"o", "r">>,
             <<"n", "o", "t">>, <<"c", "l", "a", "s", "s">>,
             <<"g", "l", "o", "b", "a", "l">>,
             <<"n", "o", "n", "l", "o", "c", "a", "l">>}

\* a name looked up in safe_dict = {"__builtins__": {}, "math": math,
\* "abs": abs}
LookupName(name) ==
  IF name = <<"m", "a", "t", "h">> THEN Val(Obj("module"))
  ELSE IF name = <<"a", "b", "s">> THEN Val(Func("abs"))
  ELSE Raise("NameError")

\* obj.name: only the math module has attributes that can be spelled
GetAttr(obj, name) ==
  IF obj.t = "module" /\ MathAttr(name) # ""
  THEN IF MathAttr(name) \in {"log2", "log10"} THEN Unmodelled
       ELSE Val(Func(MathAttr(name)))
  ELSE Raise("AttributeError")

\* abs(x)
BuiltinAbs(x) ==
  IF x.t = "complex" THEN Unmodelled
  ELSE IF ~IsNumber(x) THEN Raise("TypeError")
  ELSE IF x.k = "nan" THEN Val(x)
  ELSE Val([x EXCEPT !.n = Abs(x.n)])

\* math.sqrt(x)
MathSqrt(x) ==
  IF ~IsNumber(x) THEN Raise("TypeError")
  ELSE LET f == ToFloat(x)
       IN IF f.st # "val" THEN f
          ELSE IF f.v.k = "nan" THEN Val(NaN)
          ELSE IF f.v.n < 0 THEN Raise("ValueError")
          ELSE IF f.v.k = "inf" THEN Val(f.v)
          ELSE SqrtFinite(f.v)

\* math.log(x) with one argument; an int of any size has a logarithm
MathLog(x) ==
  IF ~IsNumber(x) THEN Raise("TypeError")
  ELSE IF x.k = "nan" THEN Val(NaN)
  ELSE IF x.n <= 0 THEN Raise("ValueError")
  ELSE IF x.k = "inf" THEN Val(x)
  ELSE IF x.n = 1 /\ x.d = 1 /\ x.e = 0 THEN Val(PyFloat(0, 1))
  ELSE Unmodelled

\* math.sin(x), math.cos(x), math.tan(x); at0 is the value at zero
MathTrig(x, at0) ==
  IF ~IsNumber(x) THEN Raise("TypeError")
  ELSE LET f == ToFloat(x)
       IN IF f.st # "val" THEN f
          ELSE IF f.v.k = "nan" THEN Val(NaN)
          ELSE IF f.v.k = "inf" THEN Raise("ValueError")
          ELSE IF f.v.n = 0 THEN Val(PyFloat(at0, 1))
          ELSE Unmodelled

\* f(args) with no argument or one
CallObject(f, args) ==
  IF f.t # "builtin_function_or_method" THEN Raise("TypeError")
  ELSE IF Len(args) # 1 THEN Raise("TypeError")
  ELSE CASE f.k = "abs" -> BuiltinAbs(args[1])
         [] f.k = "sqrt" -> MathSqrt(args[1])
         [] f.k = "log" -> MathLog(args[1])
         [] f.k = "sin" -> MathTrig(args[1], 0)
         [] f.k = "cos" -> MathTrig(args[1], 1)
         [] f.k = "tan" -> MathTrig(args[1], 0)

----------------------------------------------------------------------------
(* The tokens of a Python expression *)

Tok(k, s, v) == [k |-> k, v |-> v, s |-> s]
OpTok(s) == Tok("op", s, Obj("none"))
\* a lexical error (SyntaxError) and a construct outside the model
BadTok == Tok("bad", "", Obj("none"))
UnmodelledTok == Tok("unmodelled", "", Obj("none"))

DigitValue(c) == CHOOSE v \in 0..9 :
  <<"0", "1", "2", "3", "4", "5", "6", "7", "8", "9">>[v + 1] = c

RECURSIVE ScanWhile(_, _, _)
\* the first position from i on whose character is not in set
ScanWhile(s, i, set) ==
  IF i <= Len(s) /\ s[i] \in set THEN ScanWhile(s, i + 1, set) ELSE i

RECURSIVE DigitsToInt(_)
DigitsToInt(ds) ==
  IF ds = <<>> THEN 0
  ELSE 10 * DigitsToInt(SubSeq(ds, 1, Len(ds) - 1)) + DigitValue(ds[Len(ds)])

RECURSIVE TrailingZeros(_)
TrailingZeros(ds) ==
  IF ds # <<>> /\ ds[Len(ds)] = "0"
  THEN 1 + TrailingZeros(SubSeq(ds, 1, Len(ds) - 1)) ELSE 0

RECURSIVE LeadingZeros(_)
LeadingZeros(ds) ==
  IF ds # <<>> /\ ds[1] = "0" THEN 1 + LeadingZeros(Tail(ds)) ELSE 0

\* the number written with the digits ds and fraclen of them after the
\* point; the model holds nine significant digits
LiteralValue(t, ds, fraclen) ==
  LET z == TrailingZeros(ds)
      sig == SubSeq(ds, LeadingZeros(ds) + 1, Len(ds) - z)
  IN IF LeadingZeros(ds) = Len(ds) THEN Val(Finite(t, 0, 1, 0))
     ELSE IF Len(sig) > 9 THEN Unmodelled
     ELSE Val(Finite(t, DigitsToInt(sig), 1, z - fraclen))

\* letters that continue a number into another literal form (0b1, 0o7,
\* 0x1f, 1e5, 1j) or into a keyword glued to the number (1or 2, 1if 2 ...)
GluedKeywordPrefixes ==
  {<<"a", "n", "d">>, <<"e", "l", "s", "e">>, <<"f", "o", "r">>,
   <<"i", "f">>, <<"i", "n">>, <<"i", "s">>, <<"o", "r">>, <<"n", "o", "t">>}

\* the token of the number that starts at s[i], and the position after it
NumberToken(s, i) ==
  LET j == ScanWhile(s, i, Digits)
      isfloat == j <= Len(s) /\ s[j] = "."
      p == IF isfloat THEN ScanWhile(s, j + 1, Digits) ELSE j
      intpart == SubSeq(s, i, j - 1)
      frac == IF isfloat THEN SubSeq(s, j + 1, p - 1) ELSE <<>>
      lit == IF isfloat
             THEN LET r == LiteralValue("float", intpart \o frac, Len(frac))
                  IN IF r.st = "val" THEN RoundFloat(r.v) ELSE r
             ELSE LiteralValue("int", intpart, 0)
      glued == p <= Len(s) /\ s[p] \in Letters
      other == \/ \E kw \in GluedKeywordPrefixes : StartsWithAt(s, p, kw)
               \/ s[p] \in {"e", "j"}
               \/ (intpart = <<"0">> /\ ~isfloat /\ s[p] \in {"b", "o", "x"})
  IN IF glued THEN <<IF other THEN UnmodelledTok ELSE BadTok, p>>
     ELSE IF ~isfloat /\ Len(intpart) > 1 /\ intpart[1] = "0"
             /\ LeadingZeros(intpart) < Len(intpart)
          THEN <<BadTok, p>>
     ELSE IF lit.st # "val" THEN <<UnmodelledTok, p>>
     ELSE <<Tok("num", "", lit.v), p>>

RECURSIVE Tokenize(_, _)
\* the tokens of s from position i on; a bad or unmodelled token ends them
Tokenize(s, i) ==
  IF i > Len(s) THEN <<>>
  ELSE LET c == s[i]
           c2 == IF i + 1 <= Len(s) THEN s[i + 1] ELSE ""
           c3 == IF i + 2 <= Len(s) THEN s[i + 2] ELSE ""
       IN IF c \in Digits \/ (c = "." /\ c2 \in Digits)
          THEN LET nt == NumberToken(s, i)
               IN IF nt[1].k = "num" THEN <<nt[1]>> \o Tokenize(s, nt[2])
                  ELSE <<nt[1]>>
          ELSE IF c \in Letters
          THEN LET p == ScanWhile(s, i, Letters \cup Digits)
               IN IF SubSeq(s, i, p - 1) \in Keywords THEN <<UnmodelledTok>>
                  ELSE <<Tok("name", SubSeq(s, i, p - 1), Obj("none"))>>
                         \o Tokenize(s, p)
          ELSE IF c = "." /\ c2 = "." /\ c3 = "."
          THEN <<OpTok("...")>> \o Tokenize(s, i + 3)
          ELSE IF c = "*" /\ c2 = "*" THEN <<OpTok("**")>> \o Tokenize(s, i + 2)
          ELSE IF c = "/" /\ c2 = "/" THEN <<OpTok("//")>> \o Tokenize(s, i + 2)
          ELSE IF c \in {"+", "-", "*", "/", "(", ")", "."}
          THEN <<OpTok(c)>> \o Tokenize(s, i + 1)
          ELSE <<UnmodelledTok>>

----------------------------------------------------------------------------
(* eval: the expression grammar of Python over these tokens, evaluated     *)
(* while it is parsed.  Operands are evaluated left to right, so the first *)
(* operand that raises decides the exception; a syntax error anywhere      *)
(* wins over every run-time exception, as the whole string is compiled     *)
(* before any of it runs.                                                  *)
(*   sum     ::= term (("+" | "-") term)*                                  *)
(*   term    ::= factor (("*" | "/" | "//") factor)*                       *)
(*   factor  ::= ("+" | "-") factor | power                                *)
(*   power   ::= primary ["**" factor]                                     *)
(*   primary ::= atom ("." NAME | "(" [["*" | "**"] sum] ")")*             *)
(*   atom    ::= NAME | NUMBER | "..." | "(" sum ")" | "(" ")"             *)

\* a parse: ok is FALSE on a syntax error, r the result of the evaluation,
\* i the position of the next token
Parsed(r, i) == [ok |-> TRUE, r |-> r, i |-> i]
NoParse == [ok |-> FALSE, r |-> Raise("SyntaxError"), i |-> 0]

IsOp(toks, i, ops) == i <= Len(toks) /\ toks[i].k = "op" /\ toks[i].s \in ops
IsKind(toks, i, kind) == i <= Len(toks) /\ toks[i].k = kind

\* the operator applied to two evaluated operands, the left one first
Apply2(op, l, r) ==
  IF l.st # "val" THEN l ELSE IF r.st # "val" THEN r ELSE BinOp(op, l.v, r.v)

Apply1(op, x) == IF x.st # "val" THEN x ELSE UnaryOp(op, x.v)

ApplyAttr(x, name) == IF x.st # "val" THEN x ELSE GetAttr(x.v, name)

\* the call f(args): f is evaluated, then the arguments, then f is called
ApplyCall(f, args) ==
  IF f.st # "val" THEN f
  ELSE IF args # <<>> /\ args[1].st # "val" THEN args[1]
  ELSE CallObject(f.v, [j \in DOMAIN args |-> args[j].v])

\* f(x), f(*x) and f(**x): an unpacked x must be a tuple (here the empty
\* one, which passes no argument) or a mapping (which no value here is)
ApplyStarCall(star, f, x) ==
  IF star = "" THEN ApplyCall(f, <<x>>)
  ELSE IF f.st # "val" THEN f
  ELSE IF x.st # "val" THEN x
  ELSE IF star = "*" /\ x.v.t = "tuple" THEN ApplyCall(f, <<>>)
  ELSE Raise("TypeError")

RECURSIVE ParseSum(_, _), SumRest(_, _), SumStep(_, _, _), ParseTerm(_, _),
          TermRest(_, _), TermStep(_, _, _), ParseFactor(_, _),
          Signed(_, _, _), ParsePower(_, _), PowerRest(_, _),
          Raised(_, _), ParsePrimary(_, _), Trailers(_, _),
          CallTrailer(_, _, _), Called(_, _, _, _), ParseAtom(_, _),
          Grouped(_, _)

ParseSum(toks, i) == SumRest(toks, ParseTerm(toks, i))

\* left "+" right or left "-" right, and what follows it
SumStep(toks, left, right) ==
  IF ~right.ok THEN NoParse
  ELSE SumRest(toks, Parsed(Apply2(toks[left.i].s, left.r, right.r), right.i))

SumRest(toks, left) ==
  IF left.ok /\ IsOp(toks, left.i, {"+", "-"})
  THEN SumStep(toks, left, ParseTerm(toks, left.i + 1))
  ELSE left

ParseTerm(toks, i) == TermRest(toks, ParseFactor(toks, i))

\* left "*" right, left "/" right or left "//" right, and what follows it
TermStep(toks, left, right) ==
  IF ~right.ok THEN NoParse
  ELSE TermRest(toks, Parsed(Apply2(toks[left.i].s, left.r, right.r),
                             right.i))

TermRest(toks, left) ==
  IF left.ok /\ IsOp(toks, left.i, {"*", "/", "//"})
  THEN TermStep(toks, left, ParseFactor(toks, left.i + 1))
  ELSE left

\* the sign at position i applied to the operand
Signed(toks, i, operand) ==
  IF ~operand.ok THEN NoParse
  ELSE Parsed(Apply1(toks[i].s, operand.r), operand.i)

ParseFactor(toks, i) ==
  IF IsOp(toks, i, {"+", "-"})
  THEN Signed(toks, i, ParseFactor(toks, i + 1))
  ELSE ParsePower(toks, i)

\* base "**" exponent
Raised(base, exponent) ==
  IF ~exponent.ok THEN NoParse
  ELSE Parsed(Apply2("**", base.r, exponent.r), exponent.i)

PowerRest(toks, base) ==
  IF base.ok /\ IsOp(toks, base.i, {"**"})
  THEN Raised(base, ParseFactor(toks, base.i + 1))
  ELSE base

ParsePower(toks, i) == PowerRest(toks, ParsePrimary(toks, i))

ParsePrimary(toks, i) == Trailers(toks, ParseAtom(toks, i))

\* left "(" ["*" | "**"] arg ")", and what follows it
Called(toks, left, star, arg) ==
  IF arg.ok /\ IsOp(toks, arg.i, {")"})
  THEN Trailers(toks, Parsed(ApplyStarCall(star, left.r, arg.r), arg.i + 1))
  ELSE NoParse

CallTrailer(toks, left, star) ==
  Called(toks, left, star,
         ParseSum(toks, left.i + (IF star = "" THEN 1 ELSE 2)))

Trailers(toks, left) ==
  IF ~left.ok THEN left
  ELSE IF IsOp(toks, left.i, {"."})
  THEN IF IsKind(toks, left.i + 1, "name")
       THEN Trailers(toks, Parsed(ApplyAttr(left.r, toks[left.i + 1].s),
                                  left.i + 2))
       ELSE NoParse
  ELSE IF IsOp(toks, left.i, {"("})
  THEN IF IsOp(toks, left.i + 1, {")"})
       THEN Trailers(toks, Parsed(ApplyCall(left.r, <<>>), left.i + 2))
       ELSE CallTrailer(toks, left,
                        IF IsOp(toks, left.i + 1, {"*", "**"})
                        THEN toks[left.i + 1].s ELSE "")
  ELSE left

\* "(" inner ")"
Grouped(toks, inner) ==
  IF inner.ok /\ IsOp(toks, inner.i, {")"})
  THEN Parsed(inner.r, inner.i + 1)
  ELSE NoParse

ParseAtom(toks, i) ==
  IF IsKind(toks, i, "num") THEN Parsed(Val(toks[i].v), i + 1)
  ELSE IF IsKind(toks, i, "name") THEN Parsed(LookupName(toks[i].s), i + 1)
  ELSE IF IsOp(toks, i, {"..."}) THEN Parsed(Val(Obj("ellipsis")), i + 1)
  ELSE IF IsOp(toks, i, {"("})
  THEN IF IsOp(toks, i + 1, {")"}) THEN Parsed(Val(Obj("tuple")), i + 2)
       ELSE Grouped(toks, ParseSum(toks, i + 1))
  ELSE NoParse

\* the value of the whole token sequence, given its parse
WholeInput(toks, parse) ==
  IF toks = <<>> THEN Raise("SyntaxError")
  ELSE IF toks[Len(toks)].k = "unmodelled" THEN Unmodelled
  ELSE IF toks[Len(toks)].k = "bad" THEN Raise("SyntaxError")
  ELSE IF parse.ok /\ parse.i = Len(toks) + 1 THEN parse.r
  ELSE Raise("SyntaxError")

ParseTokens(toks) == WholeInput(toks, ParseSum(toks, 1))

\* eval(source, safe_dict): the value of the expression or the exception
\* it raises
PyEval(source) == ParseTokens(Tokenize(source, 1))

----------------------------------------------------------------------------
(* calculator.py: evaluate_expression *)

\* the values a caller can pass: a string, or something else that is
\* truthy or falsy
StrArg(chars) == [type |-> "str", chars |-> chars, truthy |-> chars # <<>>]
OtherArg(type, truthy) == [type |-> type, chars |-> <<>>, truthy |-> truthy]

\* an exception object; str(e) is msg.  The text of a built-in exception is
\* abstracted to the name of its class.
CalculatorError(reason) ==
  [st |-> "exc", v |-> Obj("none"), cls |-> "CalculatorError", msg |-> reason]

\* line 69: if not expression or not isinstance(expression, str)
InvalidInput(arg) == ~arg.truthy \/ arg.type # "str"

\* line 73: expression.replace(" ", "")
RemoveWhitespace(expression) == Replace(expression, <<" ">>, <<>>)

\* line 77: all(c in allowed_chars or c.isdigit() or c in "+-*/()" ...)
\* CharacterAllowed with ^ added to the operators
CharacterAllowedWithCaret(c) ==
  c \in allowed_chars \/ c \in Digits
    \/ c \in {"+", "-", "*", "/", "(", ")", "^"}
CharacterAllowed(c) ==
  c \in allowed_chars \/ c \in Digits \/ c \in {"+", "-", "*", "/", "(", ")"}
AllCharactersAllowed(expression) ==
  \A i \in DOMAIN expression : CharacterAllowed(expression[i])

\* line 81: expression.count("(") != expression.count(")")
\* Unbalanced with > written for !=
UnbalancedOnlyOpen(expression) ==
  Count(expression, "(") > Count(expression, ")")
Unbalanced(expression) == Count(expression, "(") # Count(expression, ")")

\* lines 85-90: the function names replaced one after the other
Substitute(expression) ==
  LET s1 == Replace(expression, <<"s", "q", "r", "t">>,
                    <<"m", "a", "t", "h", ".", "s", "q", "r", "t">>)
      s2 == Replace(s1, <<"l", "o", "g">>,
                    <<"m", "a", "t", "h", ".", "l", "o", "g">>)
      s3 == Replace(s2, <<"s", "i", "n">>,
                    <<"m", "a", "t", "h", ".", "s", "i", "n">>)
      s4 == Replace(s3, <<"c", "o", "s">>,
                    <<"m", "a", "t", "h", ".", "c", "o", "s">>)
      s5 == Replace(s4, <<"t", "a", "n">>,
                    <<"m", "a", "t", "h", ".", "t", "a", "n">>)
  IN Replace(s5, <<"a", "b", "s">>, <<"a", "b", "s">>)

\* math.isinf(x) / math.isnan(x): the argument is converted to a double
\* first, which raises for an object that is no number and for a huge int
MathIsInf(x) ==
  IF ~IsNumber(x) THEN Raise("TypeError")
  ELSE LET f == ToFloat(x)
       IN IF f.st # "val" THEN f ELSE Val(f.v.k = "inf")
MathIsNan(x) ==
  IF ~IsNumber(x) THEN Raise("TypeError")
  ELSE LET f == ToFloat(x)
       IN IF f.st # "val" THEN f ELSE Val(f.v.k = "nan")

\* lines 101-105, inside the try: the guard on the evaluated result
\* GuardResult without the test for an infinite result
GuardResultNoInfinityTest(result) ==
  LET nan == MathIsNan(result)
  IN IF nan.st # "val" THEN nan
     ELSE IF nan.v THEN CalculatorError(<<"Invalid operation resulting in NaN">>)
     ELSE ToFloat(result)
GuardResult(result) ==
  LET inf == MathIsInf(result)
      nan == MathIsNan(result)
  IN IF inf.st # "val" THEN inf
     ELSE IF inf.v THEN CalculatorError(<<"Result is infinity">>)
     ELSE IF nan.st # "val" THEN nan
     ELSE IF nan.v THEN CalculatorError(<<"Invalid operation resulting in NaN">>)
     ELSE ToFloat(result)

\* the classes an exception is an instance of
Bases(cls) ==
  {cls, "Exception"} \cup
  (IF cls \in {"ZeroDivisionError", "OverflowError"}
   THEN {"ArithmeticError"} ELSE {})

\* lines 106-111: the except clauses, tried in order
\* HandleException without its last clause, except Exception
HandleExceptionNoCatchAll(e) ==
  IF "ZeroDivisionError" \in Bases(e.cls)
  THEN CalculatorError(<<"Division by zero in expression">>)
  ELSE IF Bases(e.cls) \cap {"ValueError", "TypeError", "SyntaxError"} # {}
  THEN CalculatorError(<<"Invalid expression: ">> \o e.msg)
  ELSE e
HandleException(e) ==
  IF "ZeroDivisionError" \in Bases(e.cls)
  THEN CalculatorError(<<"Division by zero in expression">>)
  ELSE IF Bases(e.cls) \cap {"ValueError", "TypeError", "SyntaxError"} # {}
  THEN CalculatorError(<<"Invalid expression: ">> \o e.msg)
  ELSE IF "Exception" \in Bases(e.cls)
  THEN CalculatorError(<<"Error evaluating expression: ">> \o e.msg)
  ELSE e

\* lines 99-111: the try statement
TryEvaluate(safe_expression) ==
  LET result == PyEval(safe_expression)
      guarded == IF result.st = "val" THEN GuardResult(result.v) ELSE result
  IN IF guarded.st = "exc" THEN HandleException(guarded) ELSE guarded

\* evaluate_expression(arg): Val(float) when it returns, else the
\* exception that leaves it
evaluate_expression(arg) ==
  IF InvalidInput(arg) THEN CalculatorError(<<"Invalid expression">>)
  ELSE LET expression == RemoveWhitespace(arg.chars)
       IN IF ~AllCharactersAllowed(expression)
          THEN CalculatorError(<<"Expression contains invalid characters">>)
          ELSE IF Unbalanced(expression)
          THEN CalculatorError(<<"Unbalanced parentheses">>)
          ELSE TryEvaluate(Substitute(expression))

----------------------------------------------------------------------------
(* calculator.py: the arithmetic primitives.  Each gives Val(number) when  *)
(* it returns, else the exception that leaves it.                          *)

\* lines 15-17
add(a, b) == BinOp("+", a, b)

\* lines 20-22
subtract(a, b) == BinOp("-", a, b)

\* lines 25-27
multiply(a, b) == BinOp("*", a, b)

\* lines 30-34
divide(a, b) ==
  IF IsZero(b) THEN CalculatorError(<<"Division by zero is not allowed">>)
  ELSE BinOp("/", a, b)

\* lines 40-45: the body of the try statement of power
PowerBody(base, exponent) ==
  LET computed == BinOp("**", base, exponent)
      inf == MathIsInf(computed.v)
      nan == MathIsNan(computed.v)
  IN IF computed.st # "val" THEN computed
     ELSE IF inf.st # "val" THEN inf
     ELSE IF inf.v THEN CalculatorError(<<"Result is infinity">>)
     ELSE IF nan.st # "val" THEN nan
     ELSE IF nan.v THEN CalculatorError(<<"Invalid operation resulting in NaN">>)
     ELSE computed

\* lines 37-47: the only except clause is for OverflowError
power(base, exponent) ==
  LET body == PowerBody(base, exponent)
  IN IF body.st = "exc" /\ "OverflowError" \in Bases(body.cls)
     THEN CalculatorError(<<"Number too large to represent">>)
     ELSE body

\* lines 50-54
square_root(n) ==
  IF IsNegative(n)
  THEN CalculatorError(<<"Cannot calculate square root of negative number">>)
  ELSE MathSqrt(n)

\* lines 57-61
modulus(a, b) ==
  IF IsZero(b) THEN CalculatorError(<<"Modulus by zero is not allowed">>)
  ELSE BinOp("%", a, b)

----------------------------------------------------------------------------
(* The inputs the model drives the program with *)

\* the characters of the expressions drawn exhaustively: two digits, the
\* point, the operators, the parentheses, a letter of a function name, a
\* character outside the allowed set, and the space
Alphabet == {"2", "0", ".", "+", "-", "*", "/", "(", ")", "a", "^", " "}

\* the expressions of tests/test_calculator.py, and expressions that reach
\* the functions, an infinite or NaN result, and the limits of the doubles
Corpus == {
  \* 2 + 3
  <<"2", " ", "+", " ", "3">>,
  \* 10 - 4
  <<"1", "0", " ", "-", " ", "4">>,
  \* 3 * 4
  <<"3", " ", "*", " ", "4">>,
  \* 15 / 3
  <<"1", "5", " ", "/", " ", "3">>,
  \* 2 ** 3
  <<"2", " ", "*", "*", " ", "3">>,
  \* (2 + 3) * 4
  <<"(", "2", " ", "+", " ", "3", ")", " ", "*", " ", "4">>,
  \* 10 + 2 * 3
  <<"1", "0", " ", "+", " ", "2", " ", "*", " ", "3">>,
  \* (10 + 2) * (3 + 1)
  <<"(", "1", "0", " ", "+", " ", "2", ")", " ", "*", " ", "(", "3", " ", "+", " ", "1", ")">>,
  \* 3.14 * 2
  <<"3", ".", "1", "4", " ", "*", " ", "2">>,
  \* sqrt(16)
  <<"s", "q", "r", "t", "(", "1", "6", ")">>,
  \* sqrt(2) * sqrt(2)
  <<"s", "q", "r", "t", "(", "2", ")", " ", "*", " ", "s", "q", "r", "t", "(", "2", ")">>,
  \* abs(-5)
  <<"a", "b", "s", "(", "-", "5", ")">>,
  \* 5 / 0
  <<"5", " ", "/", " ", "0">>,
  \* 2 +
  <<"2", " ", "+">>,
  \* (2 + 3
  <<"(", "2", " ", "+", " ", "3">>,
  \* 2 + a
  <<"2", " ", "+", " ", "a">>,
  \* sqrt(-1)
  <<"s", "q", "r", "t", "(", "-", "1", ")">>,
  \* (2 + 3) * (10 - 6)
  <<"(", "2", " ", "+", " ", "3", ")", " ", "*", " ", "(", "1", "0", " ", "-", " ", "6", ")">>,
  \* 2^3
  <<"2", "^", "3">>,
  \* 2**3
  <<"2", "*", "*", "3">>,
  \* 10.**308*10
  <<"1", "0", ".", "*", "*", "3", "0", "8", "*", "1", "0">>,
  \* 10.**308*10*0
  <<"1", "0", ".", "*", "*", "3", "0", "8", "*", "1", "0", "*", "0">>,
  \* 10.**308*10-10.**308*10
  <<"1", "0", ".", "*", "*", "3", "0", "8", "*", "1", "0", "-", "1", "0", ".", "*", "*", "3", "0", "8", "*", "1", "0">>,
  \* -10.**308*10
  <<"-", "1", "0", ".", "*", "*", "3", "0", "8", "*", "1", "0">>,
  \* 10.**309
  <<"1", "0", ".", "*", "*", "3", "0", "9">>,
  \* 10**309
  <<"1", "0", "*", "*", "3", "0", "9">>,
  \* 10.**-400
  <<"1", "0", ".", "*", "*", "-", "4", "0", "0">>,
  \* 1\t+1
  <<"1", "\t", "+", "1">>,
  \* 1\n+1
  <<"1", "\n", "+", "1">>,
  \* abs
  <<"a", "b", "s">>,
  \* sqrt
  <<"s", "q", "r", "t">>,
  \* sin
  <<"s", "i", "n">>,
  \* log(0)
  <<"l", "o", "g", "(", "0", ")">>,
  \* log(1)
  <<"l", "o", "g", "(", "1", ")">>,
  \* sin(0)
  <<"s", "i", "n", "(", "0", ")">>,
  \* cos(0)
  <<"c", "o", "s", "(", "0", ")">>,
  \* tan(0)
  <<"t", "a", "n", "(", "0", ")">>,
  \* 1/sin(0)
  <<"1", "/", "s", "i", "n", "(", "0", ")">>,
  \* (-2)**.5
  <<"(", "-", "2", ")", "*", "*", ".", "5">>,
  \* (2+x
  <<"(", "2", "+", "x">>,
  \* 2 + 3)
  <<"2", " ", "+", " ", "3", ")">>,
  \* abs()
  <<"a", "b", "s", "(", ")">>,
  \* abs(*())
  <<"a", "b", "s", "(", "*", "(", ")", ")">>,
  \* sqrt(abs)
  <<"s", "q", "r", "t", "(", "a", "b", "s", ")">>,
  \* 2(3)
  <<"2", "(", "3", ")">>,
  \* tan.sin
  <<"t", "a", "n", ".", "s", "i", "n">>,
  \* cossin(0)
  <<"c", "o", "s", "s", "i", "n", "(", "0", ")">>,
  \* 1/(2-2)
  <<"1", "/", "(", "2", "-", "2", ")">>,
  \* 2//0
  <<"2", "/", "/", "0">>,
  \* 0**-1
  <<"0", "*", "*", "-", "1">>,
  \* 9**.5
  <<"9", "*", "*", ".", "5">>,
  \* abs(-10.**308*10)
  <<"a", "b", "s", "(", "-", "1", "0", ".", "*", "*", "3", "0", "8", "*", "1", "0", ")">>,
  \* sqrt(10.**308*10)
  <<"s", "q", "r", "t", "(", "1", "0", ".", "*", "*", "3", "0", "8", "*", "1", "0", ")">>,
  \* sin(10.**308*10)
  <<"s", "i", "n", "(", "1", "0", ".", "*", "*", "3", "0", "8", "*", "1", "0", ")">>,
  \* log(-1)
  <<"l", "o", "g", "(", "-", "1", ")">>,
  \* sqrt(10**309)
  <<"s", "q", "r", "t", "(", "1", "0", "*", "*", "3", "0", "9", ")">>,
  \* 10**309/10**308
  <<"1", "0", "*", "*", "3", "0", "9", "/", "1", "0", "*", "*", "3", "0", "8">>,
  \* 10**309*1.
  <<"1", "0", "*", "*", "3", "0", "9", "*", "1", ".">>,
  \* 2.5.1
  <<"2", ".", "5", ".", "1">>,
  \* 007
  <<"0", "0", "7">>,
  \* 0.5+.5
  <<"0", ".", "5", "+", ".", "5">>,
  \* --2
  <<"-", "-", "2">>,
  \* 1e5
  <<"1", "e", "5">>,
  \* 2 + 3 = 5
  <<"2", " ", "+", " ", "3", " ", "=", " ", "5">>,
  \* x
  <<"x">>
}

Expressions == Corpus \cup UNION {[1..n -> Alphabet] : n \in 0..MaxLen}

\* what a caller can pass for the parameter expression: a string, or None,
\* 0, 5, [] or [1]
Arguments ==
  {StrArg(e) : e \in Expressions}
    \cup {OtherArg("NoneType", FALSE), OtherArg("int", FALSE),
          OtherArg("int", TRUE), OtherArg("list", FALSE),
          OtherArg("list", TRUE)}

\* the operands of the primitives: the ints and the floats of integer
\* value up to MaxInt
Operands ==
  {PyInt(i) : i \in -MaxInt..MaxInt} \cup {PyFloat(i, 1) : i \in -MaxInt..MaxInt}

\* further exponents of power and arguments of square_root: 0.5 and 0.25
Fractions == {PyFloat(1, 2), PyFloat(1, 4)}

\* further arguments of power: the overflow of tests/test_calculator.py
\* (test_power_edge_cases), once with ints and once with floats, and an
\* infinite and a NaN base
EdgePowerArguments ==
  {<<PyInt(10), PyInt(1000)>>, <<PyFloat(10, 1), PyFloat(1000, 1)>>,
   <<Inf(1), PyFloat(1, 1)>>, <<NaN, PyFloat(1, 1)>>}

\* further arguments of modulus: those of tests/test_calculator.py
\* (test_modulus, test_modulus_by_zero)
TestModulusArguments ==
  {<<PyInt(10), PyInt(3)>>, <<PyInt(15), PyInt(5)>>, <<PyInt(7), PyInt(2)>>,
   <<PyInt(-10), PyInt(3)>>, <<PyInt(10), PyInt(-3)>>, <<PyInt(5), PyInt(0)>>}

ModulusArguments == (Operands \X Operands) \cup TestModulusArguments

PowerArguments ==
  (Operands \X (Operands \cup {PyFloat(1, 2)})) \cup EdgePowerArguments

\* the bodies of the requests to the two-operand endpoints (pydantic makes
\* floats of them), to /sqrt and to /evaluate
RequestPairs == {<<PyFloat(2, 1), PyFloat(0, 1)>>, <<PyFloat(0, 1), PyFloat(-1, 1)>>}
RequestValues == {PyFloat(2, 1), PyFloat(-1, 1)}
RequestExpressions == {<<"2", " ", "+", " ", "3">>, <<"2", " ", "+", " ", "a">>}

----------------------------------------------------------------------------
(* State *)

VARIABLES
  \* evaluate_expression: the statement the call is at ("idle" between
  \* calls, "done" when it has ended), its parameter, its locals, the
  \* exception raised inside the try statement, and how the call ended
  pc, arg, expression, safe_expression, result, pending, outcome,
  \* the statements of evaluate_expression the current call has executed
  steps,
  \* the last call of a primitive and how it ended
  call, returned,
  \* main.py: the history list, the last HTTP response, and the requests
  \* answered since the history was last cleared, with their responses
  calculation_history, response, log

vars == <<pc, arg, expression, safe_expression, result, pending, outcome,
          steps, call, returned, calculation_history, response, log>>

evalVars == <<pc, arg, expression, safe_expression, result, pending,
              outcome, steps>>
primVars == <<call, returned>>
apiVars == <<calculation_history, response, log>>

NoOutcome == [st |-> "none", v |-> Obj("none"), cls |-> "", msg |-> <<>>]
NoCall == [op |-> "none", args |-> <<>>]
NoResponse == [status |-> 0, entries |-> <<>>, detail |-> <<>>, removed |-> 0]

Init ==
  /\ pc = "idle"
  /\ arg = OtherArg("NoneType", FALSE)
  /\ expression = <<>>
  /\ safe_expression = <<>>
  /\ result = Obj("none")
  /\ pending = NoOutcome
  /\ outcome = NoOutcome
  /\ steps = <<>>
  /\ call = NoCall
  /\ returned = NoOutcome
  /\ calculation_history = <<>>
  /\ response = NoResponse
  /\ log = <<>>

----------------------------------------------------------------------------
(* evaluate_expression, statement by statement *)

\* the statements of evaluate_expression in the order of the function body
\* (lines 69, 73, 77, 81, 85-90, 100); each falls through to the next
\* NextStatement with the parenthesis check written before the character
\* check
NextStatementParensFirst(statement) ==
  CASE statement = "check_input" -> "strip"
    [] statement = "strip" -> "check_parens"
    [] statement = "check_parens" -> "check_chars"
    [] statement = "check_chars" -> "substitute"
    [] statement = "substitute" -> "eval"
NextStatement(statement) ==
  CASE statement = "check_input" -> "strip"
    [] statement = "strip" -> "check_chars"
    [] statement = "check_chars" -> "check_parens"
    [] statement = "check_parens" -> "substitute"
    [] statement = "substitute" -> "eval"

\* the statement executes and control falls through
FallThrough ==
  /\ pc' = NextStatement(pc)
  /\ steps' = Append(steps, pc)

\* the call ends with the float returned or the exception raised
Finish(o) ==
  /\ outcome' = o
  /\ pc' = "done"
  /\ steps' = Append(steps, pc)

\* a caller calls evaluate_expression(a)
CallEvaluate(a) ==
  /\ pc = "idle"
  /\ pc' = "check_input"
  /\ arg' = a
  /\ expression' = a.chars
  /\ safe_expression' = <<>>
  /\ result' = Obj("none")
  /\ pending' = NoOutcome
  /\ outcome' = NoOutcome
  /\ steps' = <<>>
  /\ UNCHANGED <<primVars, apiVars>>

\* lines 69-70
CheckInput ==
  /\ pc = "check_input"
  /\ IF InvalidInput(arg)
     THEN Finish(CalculatorError(<<"Invalid expression">>))
     ELSE FallThrough /\ UNCHANGED outcome
  /\ UNCHANGED <<arg, expression, safe_expression, result, pending>>
  /\ UNCHANGED <<primVars, apiVars>>

\* line 73
StripWhitespace ==
  /\ pc = "strip"
  /\ expression' = RemoveWhitespace(expression)
  /\ FallThrough
  /\ UNCHANGED <<arg, safe_expression, result, pending, outcome>>
  /\ UNCHANGED <<primVars, apiVars>>

\* lines 76-78
CheckCharacters ==
  /\ pc = "check_chars"
  /\ IF ~AllCharactersAllowed(expression)
     THEN Finish(CalculatorError(<<"Expression contains invalid characters">>))
     ELSE FallThrough /\ UNCHANGED outcome
  /\ UNCHANGED <<arg, expression, safe_expression, result, pending>>
  /\ UNCHANGED <<primVars, apiVars>>

\* lines 81-82
CheckParentheses ==
  /\ pc = "check_parens"
  /\ IF Unbalanced(expression)
     THEN Finish(CalculatorError(<<"Unbalanced parentheses">>))
     ELSE FallThrough /\ UNCHANGED outcome
  /\ UNCHANGED <<arg, expression, safe_expression, result, pending>>
  /\ UNCHANGED <<primVars, apiVars>>

\* lines 85-97
SubstituteFunctions ==
  /\ pc = "substitute"
  /\ safe_expression' = Substitute(expression)
  /\ FallThrough
  /\ UNCHANGED <<arg, expression, result, pending, outcome>>
  /\ UNCHANGED <<primVars, apiVars>>

\* line 100: eval returns the value or raises inside the try statement
Evaluate ==
  /\ pc = "eval"
  /\ LET r == PyEval(safe_expression)
     IN IF r.st = "val"
        THEN /\ result' = r.v
             /\ pc' = "guard"
             /\ UNCHANGED pending
        ELSE /\ pending' = r
             /\ pc' = "except"
             /\ UNCHANGED result
  /\ steps' = Append(steps, pc)
  /\ UNCHANGED <<arg, expression, safe_expression, outcome>>
  /\ UNCHANGED <<primVars, apiVars>>

\* lines 101-105: the guard returns the float or raises inside the try
\* statement
Guard ==
  /\ pc = "guard"
  /\ LET g == GuardResult(result)
     IN IF g.st = "val"
        THEN Finish(g) /\ UNCHANGED pending
        ELSE /\ pending' = g
             /\ pc' = "except"
             /\ steps' = Append(steps, pc)
             /\ UNCHANGED outcome
  /\ UNCHANGED <<arg, expression, safe_expression, result>>
  /\ UNCHANGED <<primVars, apiVars>>

\* lines 106-111: the except clauses replace the pending exception
Except ==
  /\ pc = "except"
  /\ Finish(IF pending.st = "exc" THEN HandleException(pending) ELSE pending)
  /\ UNCHANGED <<arg, expression, safe_expression, result, pending>>
  /\ UNCHANGED <<primVars, apiVars>>

\* the caller has the outcome; the frame of the call is discarded
ReturnToCaller ==
  /\ pc = "done"
  /\ pc' = "idle"
  /\ arg' = OtherArg("NoneType", FALSE)
  /\ expression' = <<>>
  /\ safe_expression' = <<>>
  /\ result' = Obj("none")
  /\ pending' = NoOutcome
  /\ outcome' = NoOutcome
  /\ steps' = <<>>
  /\ UNCHANGED <<primVars, apiVars>>

NextEval ==
  \/ pc = "idle" /\ \E a \in Arguments : CallEvaluate(a)
  \/ CheckInput
  \/ StripWhitespace
  \/ CheckCharacters
  \/ CheckParentheses
  \/ SubstituteFunctions
  \/ Evaluate
  \/ Guard
  \/ Except
  \/ ReturnToCaller

EvalSpec == Init /\ [][NextEval]_vars

----------------------------------------------------------------------------
(* The primitives, called directly *)

CallPrimitive(op, args, o) ==
  /\ call' = [op |-> op, args |-> args]
  /\ returned' = o
  /\ UNCHANGED <<evalVars, apiVars>>

CallAdd(a, b) == CallPrimitive("add", <<a, b>>, add(a, b))
CallSubtract(a, b) == CallPrimitive("subtract", <<a, b>>, subtract(a, b))
CallMultiply(a, b) == CallPrimitive("multiply", <<a, b>>, multiply(a, b))
CallDivide(a, b) == CallPrimitive("divide", <<a, b>>, divide(a, b))
CallPower(a, b) == CallPrimitive("power", <<a, b>>, power(a, b))
CallSquareRoot(n) == CallPrimitive("square_root", <<n>>, square_root(n))
CallModulus(a, b) == CallPrimitive("modulus", <<a, b>>, modulus(a, b))

NextPrim ==
  \/ \E a, b \in Operands : CallAdd(a, b)
  \/ \E a, b \in Operands : CallSubtract(a, b)
  \/ \E a, b \in Operands : CallMultiply(a, b)
  \/ \E a, b \in Operands : CallDivide(a, b)
  \/ \E ab \in PowerArguments : CallPower(ab[1], ab[2])
  \/ \E n \in Operands \cup Fractions : CallSquareRoot(n)
  \/ \E ab \in ModulusArguments : CallModulus(ab[1], ab[2])

PrimSpec == Init /\ [][NextPrim]_vars

----------------------------------------------------------------------------
(* main.py: the endpoints.  A handler runs to its end without yielding    *)
(* (it awaits nothing), so each request is one step.  The timestamp of an  *)
(* entry is left out.                                                      *)

Entry(operation, input, res) ==
  [operation |-> operation, input |-> input, result |-> res]

\* lines 52-61: the list after add_to_history(operation, input_data, result)
\* add_to_history with insert(0, ...) written for append
add_to_history_first(history, operation, input_data, res) ==
  <<Entry(operation, input_data, res)>> \o history
add_to_history(history, operation, input_data, res) ==
  Append(history, Entry(operation, input_data, res))

\* the status of the HTTPException a handler raises for the exception e:
\* 400 for a CalculatorError; for any other exception 400 in /add,
\* /subtract and /multiply (lines 83, 93, 103) and 500 in the others
StatusFor(operation, e) ==
  IF e.st = "unmodelled" THEN 0
  ELSE IF e.cls = "CalculatorError" THEN 400
  ELSE IF operation \in {"addition", "subtraction", "multiplication"} THEN 400
  ELSE 500

\* a handler: the computation, then add_to_history, all inside its try
Handle(operation, input_data, computed) ==
  /\ Len(log) < MaxHistory
  /\ IF computed.st = "val"
     THEN /\ calculation_history' =
               add_to_history(calculation_history, operation, input_data,
                              computed.v)
          /\ response' = [status |-> 200,
                          entries |-> <<Entry(operation, input_data, computed.v)>>,
                          detail |-> <<>>, removed |-> 0]
     ELSE /\ response' = [status |-> StatusFor(operation, computed),
                          entries |-> <<>>, detail |-> computed.msg,
                          removed |-> 0]
          /\ UNCHANGED calculation_history
  /\ log' = Append(log, [operation |-> operation, input |-> input_data,
                         result |-> computed.v,
                         status |-> response'.status])
  /\ UNCHANGED <<evalVars, primVars>>

TwoOperands(a, b) == [a |-> a, b |-> b]

\* lines 77-84
add_numbers(a, b) == Handle("addition", TwoOperands(a, b), add(a, b))
\* lines 87-94
subtract_numbers(a, b) ==
  Handle("subtraction", TwoOperands(a, b), subtract(a, b))
\* lines 97-104
multiply_numbers(a, b) ==
  Handle("multiplication", TwoOperands(a, b), multiply(a, b))
\* lines 107-116
divide_numbers(a, b) == Handle("division", TwoOperands(a, b), divide(a, b))
\* lines 119-128
power_operation(base, exponent) ==
  Handle("power", [base |-> base, exponent |-> exponent],
         power(base, exponent))
\* lines 131-156
square_root_operation(value) ==
  Handle("square_root", [value |-> value], square_root(value))
\* lines 159-168
modulus_operation(a, b) == Handle("modulus", TwoOperands(a, b), modulus(a, b))
\* lines 171-180
evaluate_math_expression(e) ==
  Handle("evaluate", [expression |-> e], evaluate_expression(StrArg(e)))

\* lines 183-186
get_history ==
  /\ response' = [status |-> 200, entries |-> calculation_history,
                  detail |-> <<>>, removed |-> 0]
  /\ UNCHANGED <<calculation_history, log>>
  /\ UNCHANGED <<evalVars, primVars>>

\* lines 189-195
clear_history ==
  /\ calculation_history' = <<>>
  /\ response' = [status |-> 200, entries |-> <<>>, detail |-> <<>>,
                  removed |-> Len(calculation_history)]
  /\ log' = <<>>
  /\ UNCHANGED <<evalVars, primVars>>

NextApi ==
  \/ \E ab \in RequestPairs : add_numbers(ab[1], ab[2])
  \/ \E ab \in RequestPairs : subtract_numbers(ab[1], ab[2])
  \/ \E ab \in RequestPairs : multiply_numbers(ab[1], ab[2])
  \/ \E ab \in RequestPairs : divide_numbers(ab[1], ab[2])
  \/ \E ab \in RequestPairs : power_operation(ab[1], ab[2])
  \/ \E v \in RequestValues : square_root_operation(v)
  \/ \E ab \in RequestPairs : modulus_operation(ab[1], ab[2])
  \/ \E e \in RequestExpressions : evaluate_math_expression(e)
  \/ get_history
  \/ clear_history

ApiSpec == Init /\ [][NextApi]_vars

TypeOK ==
  /\ pc \in {"idle", "check_input", "strip", "check_chars", "check_parens",
             "substitute", "eval", "guard", "except", "done"}
  /\ arg \in ArgumentValues
  /\ expression \in Seq(STRING)
  /\ safe_expression \in Seq(STRING)
  /\ result \in PyObjects
  /\ pending \in Outcomes
  /\ outcome \in Outcomes
  /\ steps \in Seq(STRING)
  /\ call \in PrimitiveCalls
  /\ returned \in Outcomes
  /\ calculation_history \in Seq(HistoryEntries)
  /\ response \in Responses
  /\ log \in Seq(AnsweredRequests)

\* every input of the model lies in the fragment of Python it computes
AllModelled ==
  /\ outcome.st # "unmodelled"
  /\ returned.st # "unmodelled"
  /\ \A i \in DOMAIN log : log[i].status # 0

\* the statements and the function as a whole agree
StepsAgree ==
  pc = "done" => outcome = evaluate_expression(arg)

----------------------------------------------------------------------------
(* Properties *)

InvalidCharacters == CalculatorError(<<"Expression contains invalid characters">>)
UnbalancedParentheses == CalculatorError(<<"Unbalanced parentheses">>)
InvalidExpression == CalculatorError(<<"Invalid expression">>)

\* a call of evaluate_expression with a non-empty string has ended
EndedOnString == pc = "done" /\ arg.type = "str" /\ arg.chars # <<>>

\* C1: evaluate_expression ends either by returning a float or by raising
\* CalculatorError; no exception of another class leaves it, whichever
\* statement failed.
C1_FloatOrCalculatorError ==
  pc = "done" =>
    \/ outcome.st = "val" /\ outcome.v.t = "float"
    \/ outcome.st = "exc" /\ outcome.cls = "CalculatorError"

\* a NameError, which only the last except clause catches, was raised by
\* eval and the call ended with CalculatorError
C1_Witness ==
  /\ pc = "done"
  /\ pending.st = "exc" /\ pending.cls = "NameError"
  /\ outcome.cls = "CalculatorError"

FunctionNames == {<<"s", "q", "r", "t">>, <<"l", "o", "g">>, <<"s", "i", "n">>,
                  <<"c", "o", "s">>, <<"t", "a", "n">>, <<"a", "b", "s">>}

\* the character at position i of e is one of 0-9 . + - * / ( ) or lies
\* inside an occurrence of a function name
Acceptable(e, i) ==
  \/ e[i] \in Digits \cup {".", "+", "-", "*", "/", "(", ")"}
  \/ \E name \in FunctionNames : \E j \in 1..i :
       StartsWithAt(e, j, name) /\ i < j + Len(name)

\* C2: an expression that, after the whitespace is removed, has a character
\* that is neither one of 0-9 . + - * / ( ) nor part of an occurrence of a
\* function name fails with "Expression contains invalid characters".
C2_StrayCharacterRejected ==
  (EndedOnString /\ \E i \in DOMAIN expression : ~Acceptable(expression, i))
    => outcome = InvalidCharacters

\* the result of eval went through the guard of lines 101-104
Guarded(class) ==
  /\ pc = "done"
  /\ "guard" \in {steps[i] : i \in DOMAIN steps}
  /\ IsNumber(result) /\ result.k = class

\* C3: when the evaluated value is infinite the call fails with exactly
\* "Result is infinity", when it is NaN with exactly "Invalid operation
\* resulting in NaN".
C3_GuardReasonUnchanged ==
  /\ Guarded("inf") => outcome = CalculatorError(<<"Result is infinity">>)
  /\ Guarded("nan") =>
       outcome = CalculatorError(<<"Invalid operation resulting in NaN">>)

\* C4: a value that evaluate_expression returns is a float that is finite
\* and not NaN.
C4_ReturnsFiniteFloat ==
  (pc = "done" /\ outcome.st = "val") =>
    outcome.v.t = "float" /\ outcome.v.k = "fin"

\* eval gave an int and the call returned it as a float
C4_Witness ==
  /\ pc = "done"
  /\ outcome.st = "val"
  /\ result.t = "int"
  /\ outcome.v = [result EXCEPT !.t = "float"]

\* C5: a non-empty string that passes the character check fails with
\* "Unbalanced parentheses" exactly when it has not as many "(" as ")", and
\* is then not evaluated.
C5_UnbalancedIffCountsDiffer ==
  (EndedOnString /\ AllCharactersAllowed(expression)) =>
    LET differ == Count(arg.chars, "(") # Count(arg.chars, ")")
    IN /\ (outcome = UnbalancedParentheses) <=> differ
       /\ differ => "eval" \notin {steps[i] : i \in DOMAIN steps}

\* an expression with more ")" than "(" ended with the reason
C5_Witness ==
  /\ EndedOnString
  /\ AllCharactersAllowed(expression)
  /\ Count(arg.chars, ")") > Count(arg.chars, "(")
  /\ outcome = UnbalancedParentheses

\* the expression with every ^ written as **
WithDoubleStar(e) == Replace(e, <<"^">>, <<"*", "*">>)
HasCaret(e) == \E i \in DOMAIN e : e[i] = "^"

\* C6 as stated: an expression that uses ^ for the exponentiation ends as
\* the same expression written with ** does.
C6_CaretAsDoubleStar ==
  (/\ EndedOnString
   /\ HasCaret(arg.chars)
   /\ evaluate_expression(StrArg(WithDoubleStar(arg.chars))).st = "val")
    => outcome = evaluate_expression(StrArg(WithDoubleStar(arg.chars)))

\* C6 as amended: an expression that contains ^ fails the character check
\* with "Expression contains invalid characters" and is not evaluated; the
\* exponentiation is written **, and "2**3" returns 8.
C6_CaretRejected ==
  /\ (EndedOnString /\ HasCaret(arg.chars)) =>
       /\ outcome = InvalidCharacters
       /\ "eval" \notin {steps[i] : i \in DOMAIN steps}
  /\ (pc = "done" /\ arg = StrArg(<<"2", "*", "*", "3">>)) =>
       outcome = Val(PyFloat(8, 1))

\* "2^3" was rejected
C6_Witness ==
  /\ pc = "done"
  /\ arg = StrArg(<<"2", "^", "3">>)
  /\ outcome = InvalidCharacters

\* the reasons the primitives are documented to fail with
PrimitiveReasons ==
  {<<"Division by zero is not allowed">>, <<"Result is infinity">>,
   <<"Invalid operation resulting in NaN">>,
   <<"Number too large to represent">>,
   <<"Cannot calculate square root of negative number">>,
   <<"Modulus by zero is not allowed">>}

\* C7: divide, power, square_root and modulus either return a number or
\* raise CalculatorError with one of their documented reasons.
C7_PrimitivesRaiseCalculatorError ==
  call.op \in {"divide", "power", "square_root", "modulus"} =>
    \/ returned.st = "val" /\ IsNumber(returned.v)
    \/ /\ returned.st = "exc"
       /\ returned.cls = "CalculatorError"
       /\ returned.msg \in PrimitiveReasons

\* modulus was called with two ints
ModulusOfInts ==
  /\ call.op = "modulus"
  /\ call.args[1].t = "int"
  /\ call.args[2].t = "int"

\* C8: for ints a and b # 0, modulus(a, b) returns r with a = b*q + r for
\* an integer q, |r| < |b|, and r zero or of the sign of b; for b = 0 it
\* raises "Modulus by zero is not allowed".
C8_ModulusFollowsDivisor ==
  ModulusOfInts =>
    LET a == IntValue(call.args[1])
        b == IntValue(call.args[2])
        r == IntValue(returned.v)
    IN IF b = 0
       THEN returned = CalculatorError(<<"Modulus by zero is not allowed">>)
       ELSE /\ returned.st = "val"
            /\ returned.v.t = "int"
            /\ \E q \in -(Abs(a) + 1)..(Abs(a) + 1) : a = b * q + r
            /\ Abs(r) < Abs(b)
            /\ r = 0 \/ Sign(r) = Sign(b)

\* modulus(-10, 3) returned 2
C8_Witness ==
  /\ ModulusOfInts
  /\ call.args = <<PyInt(-10), PyInt(3)>>
  /\ returned = Val(PyInt(2))

\* the requests of the log that were answered with 200
Successful == SelectSeq(log, LAMBDA request : request.status = 200)

\* C9: the history holds, in the order of the calls, one entry with the
\* operation, the input and the result of each successful computation since
\* the history was last cleared, and nothing else.
C9_HistoryIsSuccessfulCalls ==
  calculation_history =
    [i \in 1..Len(Successful) |->
       Entry(Successful[i].operation, Successful[i].input,
             Successful[i].result)]

\* two different computations succeeded around one that failed
C9_Witness ==
  /\ Len(log) = 3
  /\ log[1].status = 200 /\ log[2].status # 200 /\ log[3].status = 200
  /\ Len(calculation_history) = 2
  /\ calculation_history[1] # calculation_history[2]

\* the statements of evaluate_expression up to eval, in their order
StatementOrder ==
  <<"check_input", "strip", "check_chars", "check_parens", "substitute",
    "eval">>

Executed == {steps[i] : i \in DOMAIN steps}

\* C10: the statements run in the order emptiness/type check, whitespace
\* removal, character check, parenthesis check, evaluation; the first check
\* that fails ends the call with its reason, and eval is reached only when
\* the three checks have passed.
C10_FirstFailingCheckDecides ==
  LET stripped == RemoveWhitespace(arg.chars)
      badinput == arg.type # "str" \/ ~arg.truthy
      badchars == ~AllCharactersAllowed(stripped)
      badparens == Count(stripped, "(") # Count(stripped, ")")
  IN /\ \A i \in DOMAIN steps :
          i <= Len(StatementOrder) => steps[i] = StatementOrder[i]
     /\ "eval" \in Executed => ~badinput /\ ~badchars /\ ~badparens
     /\ pc = "done" =>
          IF badinput
          THEN outcome = InvalidExpression /\ Len(steps) = 1
          ELSE IF badchars
          THEN outcome = InvalidCharacters /\ Len(steps) = 3
          ELSE IF badparens
          THEN outcome = UnbalancedParentheses /\ Len(steps) = 4
          ELSE "eval" \in Executed

\* an expression with a character outside the allowed set and unbalanced
\* parentheses ended with the reason of the character check
C10_Witness ==
  /\ EndedOnString
  /\ ~AllCharactersAllowed(expression)
  /\ Count(expression, "(") # Count(expression, ")")
  /\ outcome = InvalidCharacters

WhitespaceCharacters == {" ", "\t", "\n"}

\* the expression with every space, tab and newline taken out
WithoutWhitespace(e) == SelectSeq(e, LAMBDA c : c \notin WhitespaceCharacters)

\* two characters that written side by side belong to one token
Joining(a, b) ==
  \/ {a, b} \subseteq Digits \cup Letters \cup {"."}
  \/ a = "*" /\ b = "*"
  \/ a = "/" /\ b = "/"

\* the nearest character of e before (after) position i that is no
\* whitespace, "" when there is none
Before(e, i) ==
  LET S == {j \in 1..(i - 1) : e[j] \notin WhitespaceCharacters}
  IN IF S = {} THEN "" ELSE e[CHOOSE j \in S : \A k \in S : k <= j]
After(e, i) ==
  LET S == {j \in (i + 1)..Len(e) : e[j] \notin WhitespaceCharacters}
  IN IF S = {} THEN "" ELSE e[CHOOSE j \in S : \A k \in S : j <= k]

\* e has whitespace, all of it between tokens or around the expression
WhitespaceBetweenTokens(e) ==
  /\ WithoutWhitespace(e) # <<>>
  /\ \E i \in DOMAIN e : e[i] \in WhitespaceCharacters
  /\ \A i \in DOMAIN e :
       e[i] \in WhitespaceCharacters => ~Joining(Before(e, i), After(e, i))

\* C11: spaces, tabs and newlines between the tokens of an expression do
\* not change the outcome of evaluate_expression: the call ends as it does
\* for the expression without them, so whitespace never causes
\* "Expression contains invalid characters".
C11_WhitespaceIgnored ==
  (EndedOnString /\ WhitespaceBetweenTokens(arg.chars)) =>
    outcome = evaluate_expression(StrArg(WithoutWhitespace(arg.chars)))

====
